---- MODULE Spec2Model ----
(***************************************************************************)
(* Model of the tweet-link harvesting entry points:                        *)
(*   "storage"     src/main.go            anaconda feed, SaveAllInText     *)
(*   "csvAnaconda" src/unnamed/part_001   anaconda feed, createTweetTestData*)
(*   "csvDemux"    src/unnamed/part_000   go-twitter feed + demux worker,  *)
(*                 (lines 1-269)          createTweetTestData              *)
(*   "console"     src/unnamed/part_000   go-twitter feed + demux worker,  *)
(*                 (lines 271-442)        console display                  *)
(* A run is one process: it either searches once or follows the stream.    *)
(* The harvester library, the feed, the disk store and the operating       *)
(* system's signals are the environment: their results are chosen with \E. *)
(***************************************************************************)
EXTENDS Naturals, Integers, Sequences, FiniteSets, TLC

\* ------------------------------------------------------------------ bounds
MaxMsgs == 2        \* items the ingestion source delivers in one run
MaxResources == 2   \* resources the harvester discovers in one run
MaxFlagValues == 2  \* occurrences of one repeatable flag on the command line

\* ------------------------------------------------------------ environment
Entries == {"storage", "csvAnaconda", "csvDemux"}
ConsoleEntries == {"console"}
Modes == {"search", "stream"}
Slugs == {"s1", "s2"}
Origs == {"u1", "u2"}

\* A harvested resource as the sinks see it: res.IsValid(), res.IsIgnored(),
\* harvester.CreateKeys(res).Slug(), res.OriginalURLText().
Accepted(res) == res.isURLValid /\ res.isDestValid /\ ~res.isIgnored
Flags3(res) == <<res.isURLValid, res.isDestValid, res.isIgnored>>

\* What HarvestResources can return.  Slug and original text vary only where
\* a sink stores them: for the resources SaveAllInText persists.
HarvestDomain(e) ==
    { r \in [isURLValid : BOOLEAN, isDestValid : BOOLEAN, isIgnored : BOOLEAN,
             slug : Slugs, orig : Origs] :
        /\ (r.slug = "s1" \/ r.orig = "u1")
        /\ ((Accepted(r) /\ e = "storage") \/ (r.slug = "s1" /\ r.orig = "u1")) }

SeqsUpTo(S, n) == UNION { [1..k -> S] : k \in 0..n }

RECURSIVE SumCounts(_)
SumCounts(s) == IF s = <<>> THEN 0 ELSE Head(s).count + SumCounts(Tail(s))

VARIABLES
    entry,       \* which entry point this process runs
    mode,        \* -search or -filter-stream
    mainpc,      \* position of func main
    workerpc,    \* position of the demux.HandleChan goroutine ("none" if not spawned)
    total,       \* len(searchResult.Statuses)
    arrived,     \* items taken from the ingestion source so far
    pipeline,    \* messages whose handler has started and not returned
    harvested,   \* per accepted message: its arrival number n, len(r.Resources)
    out,         \* every call made on a sink, in the order made
    store,       \* the diskv directory: set of [key, data]
    csvFlushed,  \* csv rows that csvWriter.Flush() has pushed to the file
    cfg,         \* the command line: credentials, -query and pattern values
    rules,       \* ignoreURLsRegEx, removeParamsFromURLsRegEx
    verdict,     \* the last result of a rule list's scan
    failure      \* how the ingestion source has failed ("none": it has not)

vars == <<entry, mode, mainpc, workerpc, total, arrived, pipeline, harvested,
          out, store, csvFlushed, cfg, rules, verdict, failure>>

IsCsv == entry \in {"csvAnaconda", "csvDemux"}
IsDemux == entry \in {"csvDemux", "console"}

Consumer == IF IsDemux /\ mode = "stream" THEN "worker" ELSE "main"

\* ------------------------------------------------------------ sink events
\* One record per call made on a sink.  m is the arrival number of the
\* message (0: before any message), i the discovery index of the resource.
NoData == [slug |-> "", origURL |-> "", content |-> 0]

Ev(sink, m, i, label, reason, fields, row, key, data, ok) ==
    [sink |-> sink, m |-> m, i |-> i, label |-> label,
     reason |-> reason, fields |-> fields, row |-> row, key |-> key,
     data |-> data, ok |-> ok]

\* res.IsIgnored()'s second result: the harvester's free-text reason.
IgnoreReason(res) == "ignoreReason"

\* ------------------------------------------- SaveAllInText (src/main.go)
\* The branch of the loop body a resource takes, named by its log message.
SaveOutcome_IgnoreFirst(res) ==
    IF ~res.isURLValid THEN "Invalid URL"
    ELSE IF res.isIgnored THEN "Ignored"
    ELSE IF ~res.isDestValid THEN "Invalid URL Destination"
    ELSE "Saved"

SaveOutcome_NoIgnoreCheck(res) ==
    IF ~res.isURLValid THEN "Invalid URL"
    ELSE IF ~res.isDestValid THEN "Invalid URL Destination"
    ELSE "Saved"

SaveOutcome(res) ==
    IF ~res.isURLValid THEN "Invalid URL"
    ELSE IF ~res.isDestValid THEN "Invalid URL Destination"
    ELSE IF res.isIgnored THEN "Ignored"
    ELSE "Saved"

\* The zap "reason" field of the branch ("" where the branch logs none).
SaveReason(res) ==
    IF ~res.isURLValid THEN "Not sure why"
    ELSE IF ~res.isDestValid
         THEN (IF res.isIgnored THEN IgnoreReason(res) ELSE "Unknown reason")
    ELSE IF res.isIgnored THEN IgnoreReason(res)
    ELSE ""

\* The zap fields each logger.Info call passes.
SaveLogFields_SameForAll(label) ==
    {"source", "originalURLText", "reason", "referredBy", "finalURL",
     "resolvedURL"}

SaveLogFields(label) ==
    CASE label = "Invalid URL" -> {"source", "originalURLText", "reason"}
      [] label = "Invalid URL Destination" ->
             {"source", "originalURLText", "reason"}
      [] label = "Ignored" ->
             {"source", "originalURLText", "reason", "referredBy", "finalURL",
              "resolvedURL"}
      [] OTHER ->
             {"source", "originalURLText", "slug", "referredBy", "finalURL",
              "resolvedURL", "cleanedURL"}

\* frontmatter.Marshal of {Slug, OrigURL, Content}; on error the data is empty.
FrontMatter(res, text) ==
    [slug |-> res.slug, origURL |-> res.orig, content |-> text]

Marshal(res, text, marshalErr) ==
    IF marshalErr THEN NoData ELSE FrontMatter(res, text)

\* keys.Slug(): the key handed to diskv.Write.
SaveKey(res) == res.slug

\* flatTransform: every key maps to the empty directory list, so the file of
\* a key is basePath/key.
FlatTransform(key) == <<>>
DiskvPath(key) == <<FlatTransform(key), key>>

\* diskv.Write(key, data): replaces the file of the key when it succeeds.
DiskvWrite(st, key, data, ok) ==
    IF ok
    THEN {f \in st : f.path # DiskvPath(key)}
             \cup {[path |-> DiskvPath(key), key |-> key, data |-> data]}
    ELSE st

\* The calls one iteration of the loop of SaveAllInText makes, in order.
SaveCalls(m, i, text, res, marshalErr, writeErr) ==
    LET label == SaveOutcome(res)
        logEv == Ev("log", m, i, label, SaveReason(res),
                    SaveLogFields(label), <<>>, "", NoData, TRUE)
    IN IF label # "Saved" THEN <<logEv>>
       ELSE (IF marshalErr
             THEN <<Ev("stdout", m, i, "err!", "", {}, <<>>, "",
                       NoData, TRUE)>>
             ELSE <<>>)
            \o <<Ev("write", m, i, "", "", {}, <<>>, SaveKey(res),
                    Marshal(res, text, marshalErr), ~writeErr)>>
            \o <<logEv>>

SaveStore(st, text, res, marshalErr, writeErr) ==
    IF SaveOutcome(res) = "Saved"
    THEN DiskvWrite(st, SaveKey(res), Marshal(res, text, marshalErr), ~writeErr)
    ELSE st

\* ------------------------------- createTweetTestData (part_000, part_001)
CsvFinding_IgnoreFirst(res) ==
    IF ~res.isURLValid THEN "Invalid URL"
    ELSE IF res.isIgnored THEN "Ignored"
    ELSE IF ~res.isDestValid THEN "Invalid URL Destination"
    ELSE "Resolved"

CsvFinding(res) ==
    IF ~res.isURLValid THEN "Invalid URL"
    ELSE IF ~res.isDestValid THEN "Invalid URL Destination"
    ELSE IF res.isIgnored THEN "Ignored"
    ELSE "Resolved"

CsvReason(res) ==
    IF ~res.isURLValid THEN "Not sure why"
    ELSE IF ~res.isDestValid
         THEN (IF res.isIgnored THEN IgnoreReason(res) ELSE "Unknown reason")
    ELSE IF res.isIgnored THEN IgnoreReason(res)
    ELSE "Success"

\* The header each entry point writes right after csv.NewWriter.
CsvHeader(e) ==
    IF e = "csvDemux"
    THEN <<"Tweet ID", "Tweet", "Time", "Original URL", "Finding", "Reason",
           "Referrer", "Final URL", "Resolved URL", "Cleaned URL">>
    ELSE <<"Time", "Tweet", "Original URL", "Finding", "Reason", "Referrer",
           "Final URL", "Resolved URL", "Cleaned URL">>

\* The cells of the row a resource gets, named by what each cell holds.
CsvRow(e, res) ==
    LET lead == IF e = "csvDemux"
                THEN <<"IDStr", "tweetText", "time", "originalURLText">>
                ELSE <<"time", "tweetText", "originalURLText">>
        f == CsvFinding(res)
        tail ==
            CASE f = "Ignored" -> <<"referredBy", "finalURL", "resolvedURL">>
              [] f = "Resolved" ->
                     <<"referredBy", "finalURL", "resolvedURL", "cleanedURL">>
              [] OTHER -> <<>>
    IN lead \o <<f, CsvReason(res)>> \o tail

CsvCalls(e, m, i, res) ==
    <<Ev("csv", m, i, CsvFinding(res), CsvReason(res), {},
         CsvRow(e, res), "", NoData, TRUE)>>

HeaderEv(e) ==
    Ev("csv", 0, 0, "", "", {}, CsvHeader(e), "", NoData, TRUE)

CsvRowsWritten(o) == Cardinality({j \in 1..Len(o) : o[j].sink = "csv"})

\* ------------------------------------------------------------- the process
\* The process runs until func main returns; every goroutine ends with it.
ProcessAlive_Forever(pc) == TRUE

ProcessAlive(pc) == pc \notin {"exited", "fatal"}

\* The consuming loop calls the handler and takes the next item only after
\* the call has returned: `for ... range` in main, demux.HandleChan's loop.
CanAccept_Async(pl) == TRUE

CanAccept(pl) == pl = <<>>

\* `for _, res := range r.Resources`: the resource the loop visits next.
NextIndex_Reverse(p) == Len(p.res) - p.routed

NextIndex(p) == p.routed + 1

\* The loops take the items in the order the source holds them: the item
\* taken after n items is item n + 1.
NextArrival(n) == n + 1

Budget == MaxResources - SumCounts(harvested)

\* contentHarvester.HarvestResources(text): the handler's first statement.
Accept(n, by) ==
    \E rs \in SeqsUpTo(HarvestDomain(entry), Budget) :
        /\ pipeline' = Append(pipeline,
                              [n |-> n, text |-> n, res |-> rs, routed |-> 0,
                               by |-> by])
        /\ harvested' = Append(harvested, [n |-> n, count |-> Len(rs)])

\* --------------------------------------------------------- configuration
\* The four credential flags, and the values one pattern flag can be given:
\* the empty string, two well-formed patterns and a malformed one.
Creds == {"consumer-key", "consumer-secret", "access-token", "access-secret"}
QueryValues == {"", "q"}
PatternValues == {"", "p1", "p2", "("}

\* regexp.MustCompile panics on a pattern that does not compile.
Malformed(value) == value = "("

\* ignoreURLsRegExList.Set, cleanURLsRegExList.Set, textList.Set: an empty
\* value is dropped, any other is appended.
SetValue_KeepEmpty(list, value) == Append(list, value)

SetValue(list, value) == IF value # "" THEN Append(list, value) ELSE list

\* flags.Parse and SetFlagsFromEnv call Set once per value, in order.
RECURSIVE ParseValues(_, _)
ParseValues(list, values) ==
    IF values = <<>> THEN list
    ELSE ParseValues(SetValue(list, Head(values)), Tail(values))

\* Set compiles every value it appends.
ParsePanics(values) ==
    \E k \in 1..Len(ParseValues(<<>>, values)) :
        Malformed(ParseValues(<<>>, values)[k])

DefaultIgnore == <<"^https://twitter.com/(.*?)/status/(.*)$", "https://t.co">>
DefaultClean == <<"^utm_">>

\* `if len(list) == 0 { list.Set(default) ... }`
WithDefault(list, default) ==
    IF Len(list) = 0 THEN ParseValues(list, default) ELSE list

NoRules == [ignore |-> <<>>, clean |-> <<>>, handed |-> FALSE]

\* No rule list has been scanned yet.
NoVerdict ==
    [kind |-> "none", subject |-> {},
     result |-> [hit |-> FALSE, text |-> "", rule |-> ""]]

\* `if !*filterTwitterStream && !*searchTwitter`: the console entry point
\* has no mode flags and always follows the stream.
ModeOf(filter, search) ==
    IF search THEN "search" ELSE IF filter THEN "stream" ELSE "none"

ModeOk(e, m) == e = "console" \/ m # "none"

\* `if *consumerKey == "" || ... || *accessSecret == ""`
CredsOk_Unchecked(c) == TRUE

CredsOk(c) == c.creds = Creds

\* `if len(twitterQuery) == 0` / `if len(twitterFilterTrackItems) == 0`
QueryOk(c) == Len(ParseValues(<<>>, c.query)) # 0

\* The command lines of the runs that are followed through ingestion: the
\* pattern flags are absent or hold one malformed value.
RunConfigs ==
    [creds : SUBSET Creds, query : SeqsUpTo(QueryValues, 1),
     ignoreValues : {<<>>, <<"(">>}, cleanValues : {<<>>, <<"(">>}]

\* The command lines that vary the pattern flags.
RuleConfigs ==
    [creds : {Creds}, query : {<<"q">>},
     ignoreValues : SeqsUpTo(PatternValues, MaxFlagValues),
     cleanValues : SeqsUpTo(PatternValues, MaxFlagValues)]

\* The process when func main starts.
Start(E, C) ==
    /\ entry \in E
    /\ \E filter \in BOOLEAN, search \in BOOLEAN :
         mode = IF entry = "console" THEN "stream" ELSE ModeOf(filter, search)
    /\ cfg \in C
    /\ mainpc = "parse"
    /\ workerpc = "none"
    /\ total = 0
    /\ arrived = 0
    /\ pipeline = <<>>
    /\ harvested = <<>>
    /\ out = <<>>
    /\ store = {}
    /\ csvFlushed = 0
    /\ rules = NoRules
    /\ verdict = NoVerdict
    /\ failure = "none"

Init == Start(Entries, RunConfigs)

\* flags.Parse(os.Args[1:]) and flagutil.SetFlagsFromEnv: every value of a
\* pattern flag goes through Set, which panics on a malformed one.
ParseFlags ==
    /\ mainpc = "parse"
    /\ IF ParsePanics(cfg.ignoreValues) \/ ParsePanics(cfg.cleanValues)
       THEN mainpc' = "fatal" /\ rules' = rules
       ELSE /\ mainpc' = IF entry = "console" THEN "checkCreds" ELSE "checkMode"
            /\ rules' = [rules EXCEPT
                           !.ignore = ParseValues(<<>>, cfg.ignoreValues),
                           !.clean = ParseValues(<<>>, cfg.cleanValues)]
    /\ UNCHANGED <<entry, mode, workerpc, total, arrived, pipeline, harvested,
                   out, store, csvFlushed, cfg, verdict, failure>>

\* "Either filter-stream or search should be specified": log.Fatal.
CheckMode ==
    /\ mainpc = "checkMode"
    /\ mainpc' = IF ModeOk(entry, mode) THEN "checkCreds" ELSE "fatal"
    /\ UNCHANGED <<entry, mode, workerpc, total, arrived, pipeline, harvested,
                   out, store, csvFlushed, cfg, rules, verdict, failure>>

\* "Consumer key/secret and Access token/secret required": log.Fatal.
CheckCreds ==
    /\ mainpc = "checkCreds"
    /\ mainpc' = IF CredsOk(cfg) THEN "checkQuery" ELSE "fatal"
    /\ UNCHANGED <<entry, mode, workerpc, total, arrived, pipeline, harvested,
                   out, store, csvFlushed, cfg, rules, verdict, failure>>

\* "Twitter query is required" / "... one Twitter filter track item": log.Fatal.
CheckQuery ==
    /\ mainpc = "checkQuery"
    /\ mainpc' = IF QueryOk(cfg) THEN "setup" ELSE "fatal"
    /\ UNCHANGED <<entry, mode, workerpc, total, arrived, pipeline, harvested,
                   out, store, csvFlushed, cfg, rules, verdict, failure>>

\* The default rules, MakeContentHarvester, and the sink: zap.NewProduction
\* in main.go (log.Fatalf if it fails); in the csv entry points os.OpenFile
\* (exit 1 if it fails) and the header handed to csvWriter.
Setup ==
    /\ mainpc = "setup"
    /\ rules' = [ignore |-> WithDefault(rules.ignore, DefaultIgnore),
                 clean |-> WithDefault(rules.clean, DefaultClean),
                 handed |-> TRUE]
    /\ \E sinkErr \in BOOLEAN :
         IF sinkErr /\ entry # "console"
         THEN mainpc' = "fatal" /\ out' = out
         ELSE /\ mainpc' = "start"
              /\ out' = IF IsCsv THEN Append(out, HeaderEv(entry)) ELSE out
    /\ UNCHANGED <<entry, mode, workerpc, total, arrived, pipeline, harvested,
                   store, csvFlushed, cfg, verdict, failure>>

\* ------------------------------------------------------------- ingestion
\* Whether the entry point looks at the error the search returns: part_000
\* does (log.Fatal), main.go and part_001 assign it to the blank identifier.
ChecksSearchError(e) == e = "csvDemux"

\* twitterAPI.GetSearch / client.Search.Tweets: the statuses of one search,
\* or an error and no statuses.
GetSearch ==
    /\ mainpc = "start" /\ mode = "search"
    /\ \E searchErr \in BOOLEAN :
         IF searchErr
         THEN /\ failure' = "search"
              /\ total' = 0
              /\ mainpc' = IF ChecksSearchError(entry) THEN "fatal"
                           ELSE "searchLoop"
         ELSE /\ failure' = failure
              /\ \E n \in 0..MaxMsgs : total' = n
              /\ mainpc' = "searchLoop"
    /\ UNCHANGED <<entry, mode, workerpc, arrived, pipeline, harvested, out,
                   store, csvFlushed, cfg, rules, verdict>>

\* `for _, tweet := range searchResult.Statuses`: the next status.
SearchNext ==
    /\ mainpc = "searchLoop" /\ CanAccept(pipeline) /\ arrived < total
    /\ arrived' = arrived + 1
    /\ Accept(NextArrival(arrived), "main")
    /\ UNCHANGED <<entry, mode, mainpc, workerpc, total, out, store, csvFlushed,
                   cfg, rules, verdict, failure>>

\* The loop over the statuses is over: `return`.
SearchReturn ==
    /\ mainpc = "searchLoop" /\ CanAccept(pipeline) /\ arrived = total
    /\ mainpc' = "exited"
    /\ UNCHANGED <<entry, mode, workerpc, total, arrived, pipeline, harvested,
                   out, store, csvFlushed, cfg, rules, verdict, failure>>

\* PublicStreamFilter (consumed by main; it returns no error) /
\* Streams.Filter (log.Fatal on its error), go HandleChan, signal.Notify
\* (consumed by the worker, main waits for the signal).
StartStream ==
    /\ mainpc = "start" /\ mode = "stream"
    /\ IF IsDemux
       THEN \E openErr \in BOOLEAN :
              IF openErr
              THEN mainpc' = "fatal" /\ workerpc' = workerpc
                   /\ failure' = "open"
              ELSE mainpc' = "waitSignal" /\ workerpc' = "recv"
                   /\ failure' = failure
       ELSE mainpc' = "streamLoop" /\ workerpc' = workerpc
            /\ failure' = failure
    /\ UNCHANGED <<entry, mode, total, arrived, pipeline, harvested, out, store,
                   csvFlushed, cfg, rules, verdict>>

ConsumerReady ==
    /\ mode = "stream"
    /\ ProcessAlive(mainpc)
    /\ IF IsDemux THEN workerpc = "recv" ELSE mainpc = "streamLoop"

\* The stream delivers a tweet: `case anaconda.Tweet` / demux.Tweet.
StreamTweet ==
    /\ ConsumerReady /\ CanAccept(pipeline) /\ arrived < MaxMsgs
    /\ arrived' = arrived + 1
    /\ Accept(NextArrival(arrived), Consumer)
    /\ UNCHANGED <<entry, mode, mainpc, workerpc, total, out, store, csvFlushed,
                   cfg, rules, verdict, failure>>

\* The stream delivers something that is no tweet: no case of the type
\* switch, no handler of the demux.
StreamOther ==
    /\ ConsumerReady /\ CanAccept(pipeline) /\ arrived < MaxMsgs
    /\ arrived' = arrived + 1
    /\ UNCHANGED <<entry, mode, mainpc, workerpc, total, pipeline, harvested,
                   out, store, csvFlushed, cfg, rules, verdict, failure>>

\* The stream's channel is closed by the library (the stream died): the
\* range loop ends; in main that is the end of main.
StreamClosed ==
    /\ ConsumerReady /\ CanAccept(pipeline)
    /\ IF IsDemux
       THEN workerpc' = "done" /\ mainpc' = mainpc
       ELSE mainpc' = "exited" /\ workerpc' = workerpc
    /\ failure' = "disconnect"
    /\ UNCHANGED <<entry, mode, total, arrived, pipeline, harvested, out, store,
                   csvFlushed, cfg, rules, verdict>>

\* --------------------------------- the console handler (part_000, 397-418)
\* `if isDestValid && !isIgnored`: the resource is displayed.
ConsoleShows_DestOnly(res) == res.isDestValid

ConsoleShows(res) == res.isDestValid /\ ~res.isIgnored

\* The calls one iteration of the console handler's loop makes, in order:
\* the line with the final URL, og.GetPageInfoFromUrl, and the title if the
\* fetch returned no error.
ConsoleCalls(m, i, res, fetchErr) ==
    IF ConsoleShows(res)
    THEN <<Ev("console", m, i, "finalURL", "", {}, <<>>, "", NoData, TRUE),
           Ev("fetch", m, i, "", "", {}, <<>>, "", NoData, ~fetchErr)>>
         \o (IF fetchErr THEN <<>>
             ELSE <<Ev("console", m, i, "title", "", {}, <<>>, "", NoData,
                       TRUE)>>)
    ELSE <<>>

\* One iteration of the handler's loop over r.Resources.
Route ==
    /\ ProcessAlive(mainpc)
    /\ \E k \in 1..Len(pipeline) :
         LET p == pipeline[k]
             i == NextIndex(p)
         IN /\ p.routed < Len(p.res)
            /\ pipeline' = [pipeline EXCEPT ![k].routed = p.routed + 1]
            /\ CASE IsCsv ->
                      /\ out' = out \o CsvCalls(entry, p.n, i, p.res[i])
                      /\ store' = store
                 [] entry = "console" ->
                      \E fetchErr \in BOOLEAN :
                        /\ out' = out \o ConsoleCalls(p.n, i, p.res[i], fetchErr)
                        /\ store' = store
                 [] OTHER ->
                      \E marshalErr \in BOOLEAN, writeErr \in BOOLEAN :
                        /\ out' = out \o SaveCalls(p.n, i, p.text, p.res[i],
                                                   marshalErr, writeErr)
                        /\ store' = SaveStore(store, p.text, p.res[i],
                                              marshalErr, writeErr)
    /\ UNCHANGED <<entry, mode, mainpc, workerpc, total, arrived, harvested,
                   csvFlushed, cfg, rules, verdict, failure>>

\* The loop over r.Resources is over: csvWriter.Flush() and return.
Finish ==
    /\ ProcessAlive(mainpc)
    /\ \E k \in 1..Len(pipeline) :
         /\ pipeline[k].routed = Len(pipeline[k].res)
         /\ pipeline' = SubSeq(pipeline, 1, k - 1)
                            \o SubSeq(pipeline, k + 1, Len(pipeline))
    /\ csvFlushed' = IF IsCsv THEN CsvRowsWritten(out) ELSE csvFlushed
    /\ UNCHANGED <<entry, mode, mainpc, workerpc, total, arrived, harvested,
                   out, store, cfg, rules, verdict, failure>>

\* SIGINT/SIGTERM arrives on ch: `log.Println(<-ch)`.
Signal ==
    /\ mainpc = "waitSignal"
    /\ mainpc' = "stopping"
    /\ UNCHANGED <<entry, mode, workerpc, total, arrived, pipeline, harvested,
                   out, store, csvFlushed, cfg, rules, verdict, failure>>

\* stream.Stop() and the end of main.
Stop ==
    /\ mainpc = "stopping"
    /\ mainpc' = "exited"
    /\ UNCHANGED <<entry, mode, workerpc, total, arrived, pipeline, harvested,
                   out, store, csvFlushed, cfg, rules, verdict, failure>>

Next ==
    \/ ParseFlags
    \/ CheckMode
    \/ CheckCreds
    \/ CheckQuery
    \/ Setup
    \/ GetSearch
    \/ SearchNext
    \/ SearchReturn
    \/ StartStream
    \/ StreamTweet
    \/ StreamOther
    \/ StreamClosed
    \/ Route
    \/ Finish
    \/ Signal
    \/ Stop

Spec == Init /\ [][Next]_vars

\* ------------------------------------------------- the console entry point
InitConsole == Start(ConsoleEntries, RunConfigs)

\* part_000 (271-442) has no mode check and no search.
NextConsole ==
    \/ ParseFlags
    \/ CheckCreds
    \/ CheckQuery
    \/ Setup
    \/ StartStream
    \/ StreamTweet
    \/ StreamOther
    \/ StreamClosed
    \/ Route
    \/ Finish
    \/ Signal
    \/ Stop

SpecConsole == InitConsole /\ [][NextConsole]_vars

\* ---------------------------------------------------------- the rule lists
\* The patterns a rule list can hold.
RulePatterns ==
    {"p1", "p2"} \cup {DefaultIgnore[k] : k \in 1..Len(DefaultIgnore)}
        \cup {DefaultClean[k] : k \in 1..Len(DefaultClean)}

\* What a list is asked about (url.String(), a query parameter's name),
\* given by the patterns regEx.MatchString accepts it for.
Subjects == SUBSET RulePatterns

\* regEx.MatchString(text)
Matches(pattern, subject) == pattern \in subject

\* `for _, regEx := range l { if regEx.MatchString(text) { return ... } }`:
\* the index of the rule the loop returns at, 0 if it runs to its end.
RECURSIVE ScanFrom(_, _, _)
ScanFrom(list, subject, k) ==
    IF k > Len(list) THEN 0
    ELSE IF Matches(list[k], subject) THEN k
    ELSE ScanFrom(list, subject, k + 1)

FirstMatch_Last(list, subject) ==
    IF \E k \in 1..Len(list) : Matches(list[k], subject)
    THEN CHOOSE k \in 1..Len(list) :
            /\ Matches(list[k], subject)
            /\ \A j \in (k + 1)..Len(list) : ~Matches(list[j], subject)
    ELSE 0

FirstMatch(list, subject) == ScanFrom(list, subject, 1)

\* The two results of a scan: the flag, and the reason, which is a fixed
\* text followed by regEx.String() of the rule.
ScanResult(list, subject, text) ==
    LET k == FirstMatch(list, subject)
    IN IF k = 0
       THEN [hit |-> FALSE, text |-> "", rule |-> ""]
       ELSE [hit |-> TRUE, text |-> text, rule |-> list[k]]

\* ignoreURLsRegExList.IgnoreDiscoveredResource(url), as the harvester
\* calls it on the list it was handed.  A scan changes nothing a later scan
\* reads, so a run shows one.
IgnoreDiscoveredResource ==
    /\ mainpc = "start" /\ rules.handed /\ verdict = NoVerdict
    /\ \E subject \in Subjects :
         verdict' = [kind |-> "ignore", subject |-> subject,
                     result |-> ScanResult(rules.ignore, subject,
                                           "Matched Ignore Rule")]
    /\ UNCHANGED <<entry, mode, mainpc, workerpc, total, arrived, pipeline,
                   harvested, out, store, csvFlushed, cfg, rules, failure>>

\* cleanURLsRegExList.RemoveQueryParamFromResource(paramName)
RemoveQueryParamFromResource ==
    /\ mainpc = "start" /\ rules.handed /\ verdict = NoVerdict
    /\ \E subject \in Subjects :
         verdict' = [kind |-> "clean", subject |-> subject,
                     result |-> ScanResult(rules.clean, subject,
                                           "Matched cleaner rule")]
    /\ UNCHANGED <<entry, mode, mainpc, workerpc, total, arrived, pipeline,
                   harvested, out, store, csvFlushed, cfg, rules, failure>>

InitRules == Start({"storage"}, RuleConfigs)

\* The configuration of a run and the harvester's calls on the rule lists.
NextRules ==
    \/ ParseFlags
    \/ CheckMode
    \/ CheckCreds
    \/ CheckQuery
    \/ Setup
    \/ IgnoreDiscoveredResource
    \/ RemoveQueryParamFromResource

SpecRules == InitRules /\ [][NextRules]_vars

\* ================================================================ claims
\* The calls of one sink kind that carry a message's tag.
Calls(sinks, m) == {j \in 1..Len(out) : out[j].sink \in sinks /\ out[j].m = m}
CallsAt(sinks, m, i) == {j \in Calls(sinks, m) : out[j].i = i}

\* The four outcomes of the classification, in the spec's words.
Expected(res) ==
    IF ~res.isURLValid THEN "invalid URL"
    ELSE IF ~res.isDestValid THEN "invalid destination"
    ELSE IF res.isIgnored THEN "ignored"
    ELSE "accepted"

Taxonomy(label) ==
    CASE label = "Invalid URL" -> "invalid URL"
      [] label = "Invalid URL Destination" -> "invalid destination"
      [] label = "Ignored" -> "ignored"
      [] label \in {"Saved", "Resolved"} -> "accepted"
      [] OTHER -> "none"

\* Resources of the message in flight that the handler's loop has visited.
Routed(p) == 1..p.routed

\* C1: every resource routed by SaveAllInText or createTweetTestData gets
\* exactly one outcome report (log record, csv row), and the outcome is the
\* first that applies of invalid URL, invalid destination, ignored, accepted;
\* so a destination-invalid resource is never reported as accepted.
C1_Theorem ==
    \A k \in 1..Len(pipeline) :
        LET p == pipeline[k] IN
        \A i \in Routed(p) :
            /\ Cardinality(CallsAt({"log", "csv"}, p.n, i)) = 1
            /\ \A j \in CallsAt({"log", "csv"}, p.n, i) :
                   /\ Taxonomy(out[j].label) = Expected(p.res[i])
                   /\ (~p.res[i].isDestValid => Taxonomy(out[j].label) # "accepted")

C1_Witness ==
    \E k \in 1..Len(pipeline) :
        \E i \in Routed(pipeline[k]) :
            /\ pipeline[k].res[i].isURLValid
            /\ ~pipeline[k].res[i].isDestValid
            /\ ~pipeline[k].res[i].isIgnored
            /\ \E j \in CallsAt({"log", "csv"}, pipeline[k].n, i) :
                   out[j].label = "Invalid URL Destination"

\* C2: SaveAllInText calls diskv.Write exactly once for each accepted
\* resource and never for an invalid, destination-invalid or ignored one (the
\* csv entry points never call it); over the whole run every Write call
\* belongs to exactly one "Saved" record and back.
C2_Theorem ==
    /\ \A k \in 1..Len(pipeline) :
           \A i \in Routed(pipeline[k]) :
               Cardinality(CallsAt({"write"}, pipeline[k].n, i))
                   = (IF Accepted(pipeline[k].res[i]) /\ entry = "storage"
                      THEN 1 ELSE 0)
    /\ \A j \in 1..Len(out) :
           /\ out[j].sink = "write" =>
                  /\ Cardinality(CallsAt({"write"}, out[j].m, out[j].i)) = 1
                  /\ \E l \in CallsAt({"log"}, out[j].m, out[j].i) :
                         out[l].label = "Saved"
           /\ (out[j].sink = "log" /\ out[j].label = "Saved") =>
                  CallsAt({"write"}, out[j].m, out[j].i) # {}
           /\ (out[j].sink = "log" /\ out[j].label # "Saved") =>
                  CallsAt({"write"}, out[j].m, out[j].i) = {}

C2_Witness ==
    \E k \in 1..Len(pipeline) :
        \E i1 \in Routed(pipeline[k]), i2 \in Routed(pipeline[k]) :
            /\ Accepted(pipeline[k].res[i1])
            /\ Expected(pipeline[k].res[i2]) = "ignored"
            /\ Cardinality(Calls({"write"}, pipeline[k].n)) = 1

\* C3 as stated: a resource flagged as ignored is always reported "Ignored"
\* with the rule's reason, whatever its destination-valid flag.
C3_Original ==
    \A k \in 1..Len(pipeline) :
        \A i \in Routed(pipeline[k]) :
            pipeline[k].res[i].isIgnored =>
                \A j \in CallsAt({"log", "csv"}, pipeline[k].n, i) :
                    /\ out[j].label = "Ignored"
                    /\ out[j].reason = IgnoreReason(pipeline[k].res[i])

\* C3 as amended: an ignored resource whose URL and destination are valid is
\* reported "Ignored" with the ignore reason; an ignored resource whose URL is
\* valid and whose destination is invalid is reported "Invalid URL
\* Destination", carrying the ignore reason; one whose URL is invalid is
\* reported "Invalid URL" with the reason "Not sure why".
C3_Theorem ==
    \A k \in 1..Len(pipeline) :
        \A i \in Routed(pipeline[k]) :
            LET r == pipeline[k].res[i] IN
            r.isIgnored =>
                /\ CallsAt({"log", "csv"}, pipeline[k].n, i) # {}
                /\ \A j \in CallsAt({"log", "csv"}, pipeline[k].n, i) :
                       IF ~r.isURLValid
                       THEN out[j].label = "Invalid URL"
                                /\ out[j].reason = "Not sure why"
                       ELSE IF ~r.isDestValid
                       THEN out[j].label = "Invalid URL Destination"
                                /\ out[j].reason = IgnoreReason(r)
                       ELSE out[j].label = "Ignored"
                                /\ out[j].reason = IgnoreReason(r)

C3_Witness ==
    \E k \in 1..Len(pipeline) :
        \E i1 \in Routed(pipeline[k]), i2 \in Routed(pipeline[k]) :
            /\ Flags3(pipeline[k].res[i1]) = <<TRUE, TRUE, TRUE>>
            /\ Flags3(pipeline[k].res[i2]) = <<TRUE, FALSE, TRUE>>
            /\ \E j \in CallsAt({"log", "csv"}, pipeline[k].n, i1) :
                   out[j].label = "Ignored"
            /\ \E j \in CallsAt({"log", "csv"}, pipeline[k].n, i2) :
                   out[j].label = "Invalid URL Destination"

\* The csv row written by call j has reached the file.
Flushed(j) == CsvRowsWritten(SubSeq(out, 1, j)) <= csvFlushed

\* The fields the spec lists for every outcome record.
TaxonomyFields ==
    {"source", "originalURLText", "reason", "referredBy", "finalURL",
     "resolvedURL", "cleanedURL"}

\* C4 as stated: every resource SaveAllInText visits gets exactly one log
\* record, labelled with one of the four outcomes (up to the spelling of the
\* labels) and carrying all seven fields of the taxonomy.
C4_Original ==
    entry = "storage" =>
        \A k \in 1..Len(pipeline) :
            \A i \in Routed(pipeline[k]) :
                /\ Cardinality(CallsAt({"log"}, pipeline[k].n, i)) = 1
                /\ \A j \in CallsAt({"log"}, pipeline[k].n, i) :
                       /\ Taxonomy(out[j].label) # "none"
                       /\ TaxonomyFields \subseteq out[j].fields

\* C4 as amended: every resource SaveAllInText visits gets exactly one log
\* record, labelled "Invalid URL", "Invalid URL Destination", "Ignored" or
\* "Saved".  Every record carries source and originalURLText; reason is
\* carried by all but "Saved"; referredBy, finalURL and resolvedURL only by
\* "Ignored" and "Saved"; cleanedURL and slug only by "Saved".
C4_Theorem ==
    entry = "storage" =>
        \A k \in 1..Len(pipeline) :
            \A i \in Routed(pipeline[k]) :
                /\ Cardinality(CallsAt({"log"}, pipeline[k].n, i)) = 1
                /\ \A j \in CallsAt({"log"}, pipeline[k].n, i) :
                       LET l == out[j].label
                           f == out[j].fields
                       IN /\ l \in {"Invalid URL", "Invalid URL Destination",
                                    "Ignored", "Saved"}
                          /\ {"source", "originalURLText"} \subseteq f
                          /\ ("reason" \in f) <=> (l # "Saved")
                          /\ \A x \in {"referredBy", "finalURL", "resolvedURL"} :
                                 (x \in f) <=> (l \in {"Ignored", "Saved"})
                          /\ \A x \in {"cleanedURL", "slug"} :
                                 (x \in f) <=> (l = "Saved")

C4_Witness ==
    /\ entry = "storage"
    /\ \E k \in 1..Len(pipeline) :
           \E i1 \in Routed(pipeline[k]), i2 \in Routed(pipeline[k]) :
               /\ \E j \in CallsAt({"log"}, pipeline[k].n, i1) :
                      out[j].label = "Invalid URL"
               /\ \E j \in CallsAt({"log"}, pipeline[k].n, i2) :
                      out[j].label = "Saved"

\* C5: when diskv.Write fails, or frontmatter.Marshal fails, for an accepted
\* resource, SaveAllInText does not report the resource as "Saved".
C5_Claim ==
    \A j \in 1..Len(out) :
        (\/ (out[j].sink = "write" /\ ~out[j].ok)
         \/ (out[j].sink = "stdout" /\ out[j].label = "err!"))
            => \A l \in CallsAt({"log"}, out[j].m, out[j].i) :
                   out[l].label # "Saved"

\* C6: in the demux entry point's live-feed mode, when the process has
\* exited after stream.Stop(), no message is left part-way through its
\* handler: every message whose handler started has had all its resources
\* routed and its rows flushed.
C6_Claim ==
    (IsDemux /\ mode = "stream" /\ mainpc = "exited") =>
        \A k \in 1..Len(pipeline) :
            /\ pipeline[k].routed = Len(pipeline[k].res)
            /\ \A j \in Calls({"csv"}, pipeline[k].n) : Flushed(j)

\* C7 as stated: in live-feed mode the messages are consumed by a dedicated
\* worker while func main blocks on the termination signal (or has gone on
\* from it to stop the source).
C7_Original ==
    (mode = "stream" /\ pipeline # <<>>) =>
        /\ \A k \in 1..Len(pipeline) : pipeline[k].by = "worker"
        /\ mainpc \in {"waitSignal", "stopping", "exited"}

\* C7 as amended: in the demux entry point, live-feed messages are consumed
\* by the worker while main waits for the signal; in the anaconda entry
\* points main itself runs the consuming loop and waits for no signal.  In
\* every entry point, once main has returned (after stream.Stop() in the
\* demux entry point) no message is accepted and no sink is called any more.
C7_State ==
    (mode = "stream" /\ pipeline # <<>>) =>
        IF IsDemux
        THEN /\ \A k \in 1..Len(pipeline) : pipeline[k].by = "worker"
             /\ mainpc \in {"waitSignal", "stopping", "exited"}
        ELSE /\ \A k \in 1..Len(pipeline) : pipeline[k].by = "main"
             /\ mainpc = "streamLoop"
             /\ workerpc = "none"

C7_Theorem ==
    /\ []C7_State
    /\ [][mainpc = "exited" =>
              /\ arrived' = arrived
              /\ pipeline' = pipeline
              /\ out' = out
              /\ store' = store
              /\ csvFlushed' = csvFlushed]_vars

C7_Witness ==
    /\ IsDemux /\ mode = "stream" /\ mainpc = "exited" /\ workerpc = "recv"
    /\ arrived > 0 /\ arrived < MaxMsgs
    /\ pipeline = <<>>
    /\ harvested # <<>>

\* The messages accepted so far that are not in flight.
Completed ==
    {h \in 1..Len(harvested) :
        \A k \in 1..Len(pipeline) : pipeline[k].n # harvested[h].n}

\* C8: at most one message is in the pipeline; every message accepted before
\* it has had each of its resources reported and its csv rows flushed; and
\* the calls of one message are never interleaved with another's.
C8_Theorem ==
    /\ Len(pipeline) <= 1
    /\ \A h \in Completed :
           /\ Cardinality(Calls({"log", "csv"}, harvested[h].n))
                  = harvested[h].count
           /\ \A j \in Calls({"csv"}, harvested[h].n) : Flushed(j)
    /\ \A h \in 1..Len(harvested) :
           h < Len(harvested) => h \in Completed
    /\ \A j1 \in 1..Len(out), j2 \in 1..Len(out), j3 \in 1..Len(out) :
           (j1 < j2 /\ j2 < j3 /\ out[j1].m = out[j3].m)
               => out[j2].m = out[j1].m

C8_Witness ==
    /\ Len(harvested) = 2
    /\ harvested[1].count >= 1
    /\ pipeline # <<>>
    /\ pipeline[1].n = harvested[2].n
    /\ pipeline[1].routed >= 1

\* The tag of call j is before or equal to that of call l in input order.
TagLeq(j, l) ==
    \/ out[j].m < out[l].m
    \/ (out[j].m = out[l].m /\ out[j].i <= out[l].i)

\* C9: the calls on the sinks follow input order: messages in arrival order,
\* and within a message the resources in discovery order, each discovery
\* index reported once and none skipped.
C9_Theorem ==
    /\ \A j \in 1..Len(out), l \in 1..Len(out) : j < l => TagLeq(j, l)
    /\ \A k \in 1..Len(pipeline) :
           {out[j].i : j \in Calls({"log", "csv"}, pipeline[k].n)}
               = 1..pipeline[k].routed
    /\ \A h \in 1..Len(harvested) :
           h < Len(harvested) => harvested[h].n < harvested[h + 1].n

\* A store write and its "Saved" record of one message, then a call of a
\* message that arrived later.
C9_Witness ==
    \E j1 \in 1..Len(out), j2 \in 1..Len(out), j3 \in 1..Len(out) :
        /\ j1 < j2 /\ j2 < j3
        /\ out[j1].m >= 1
        /\ out[j1].sink = "write" /\ out[j2].sink = "log"
        /\ out[j1].m = out[j2].m /\ out[j1].i = out[j2].i
        /\ out[j3].m > out[j2].m

\* C10: per slug the store holds exactly one record once an accepted
\* resource with that slug has been saved; its metadata slug is its key; and
\* right after an accepted resource is saved the record under its slug has
\* that resource's origURL and that message's text.
C10_Claim ==
    /\ \A s \in Slugs :
           (\E j \in 1..Len(out) : out[j].sink = "write" /\ out[j].key = s)
               => /\ Cardinality({f \in store : f.key = s}) = 1
                  /\ \A f \in store : f.key = s => f.data.slug = s
    /\ \A k \in 1..Len(pipeline) :
           LET p == pipeline[k] IN
           (entry = "storage" /\ p.routed > 0 /\ Accepted(p.res[p.routed]))
               => \A f \in store :
                      f.key = SaveKey(p.res[p.routed])
                          => f.data = FrontMatter(p.res[p.routed], p.text)

\* The list a scan was made on, and the rules of it that match the subject.
ScannedList == IF verdict.kind = "ignore" THEN rules.ignore ELSE rules.clean
MatchingRules ==
    {k \in 1..Len(ScannedList) : ScannedList[k] \in verdict.subject}
ScanText ==
    IF verdict.kind = "ignore" THEN "Matched Ignore Rule"
    ELSE "Matched cleaner rule"

\* C11: a scan of the ignore list or of the cleaner list answers (true,
\* reason) with the reason naming the first rule, in configured order, that
\* matches, whatever later rules match too; it answers (false, "") when no
\* rule matches, an empty list included.
C11_Theorem ==
    verdict.kind # "none" =>
        IF MatchingRules = {}
        THEN verdict.result = [hit |-> FALSE, text |-> "", rule |-> ""]
        ELSE \E k \in MatchingRules :
               /\ \A j \in MatchingRules : k <= j
               /\ verdict.result =
                      [hit |-> TRUE, text |-> ScanText, rule |-> ScannedList[k]]

\* A scan where the first and the second rule both match and differ.
C11_Witness ==
    /\ verdict.kind # "none"
    /\ MatchingRules = {1, 2}
    /\ ScannedList[1] # ScannedList[2]
    /\ verdict.result.hit
    /\ verdict.result.rule = ScannedList[1]

\* The values of a flag that are not the empty string, in the order given.
NonEmptyValues(values) == SelectSeq(values, LAMBDA v : v # "")

\* C12: the lists the harvester is handed are the caller's non-empty
\* patterns in the order supplied where there is one, and exactly the
\* defaults otherwise (status permalink then t.co; ^utm_), each list falling
\* back on its own and never mixing defaults with supplied patterns.
C12_Theorem ==
    rules.handed =>
        /\ rules.ignore = IF NonEmptyValues(cfg.ignoreValues) # <<>>
                          THEN NonEmptyValues(cfg.ignoreValues)
                          ELSE <<"^https://twitter.com/(.*?)/status/(.*)$",
                                 "https://t.co">>
        /\ rules.clean = IF NonEmptyValues(cfg.cleanValues) # <<>>
                         THEN NonEmptyValues(cfg.cleanValues)
                         ELSE <<"^utm_">>

\* The ignore flag was given only empty strings and the cleaner flag two
\* patterns with an empty string between or around them: the ignore list
\* is the defaults, the cleaner list the caller's.
C12_Witness ==
    /\ rules.handed
    /\ cfg.ignoreValues # <<>>
    /\ NonEmptyValues(cfg.ignoreValues) = <<>>
    /\ rules.ignore = DefaultIgnore
    /\ cfg.cleanValues = <<"", "p2">>
    /\ rules.clean = <<"p2">>

\* The four configuration errors, read off the command line.
MalformedPattern ==
    \/ \E k \in 1..Len(cfg.ignoreValues) : cfg.ignoreValues[k] = "("
    \/ \E k \in 1..Len(cfg.cleanValues) : cfg.cleanValues[k] = "("
MissingCredential == Creds \ cfg.creds # {}
NoQuery == \A k \in 1..Len(cfg.query) : cfg.query[k] = ""
NoMode == mode = "none"
ConfigError == MalformedPattern \/ MissingCredential \/ NoQuery \/ NoMode

\* C13: in a run with a configuration error (malformed pattern, missing
\* credential, no query term, no mode) the process never gets past its
\* checks: the ingestion source is not contacted, no message is harvested
\* and no sink receives output.
C13_Theorem ==
    ConfigError =>
        /\ mainpc \in {"parse", "checkMode", "checkCreds", "checkQuery",
                       "fatal"}
        /\ workerpc = "none"
        /\ failure = "none"
        /\ arrived = 0
        /\ harvested = <<>>
        /\ pipeline = <<>>
        /\ out = <<>>
        /\ store = {}

\* A run that a missing credential alone has ended.
C13_Witness ==
    /\ MissingCredential /\ ~MalformedPattern /\ ~NoQuery /\ ~NoMode
    /\ mainpc = "fatal"
    /\ out = <<>>

\* C14: a run whose ingestion source failed (search request, opening the
\* stream, a disconnect) does not end the way a run without input ends: it
\* never returns from main normally.
C14_Claim == failure # "none" => mainpc # "exited"

\* The calls of the in-flight message p for its i-th resource.
FetchesAt(p, i) == CallsAt({"fetch"}, p.n, i)
LinesAt(p, i) ==
    {j \in CallsAt({"console"}, p.n, i) : out[j].label = "finalURL"}

\* C15: the console sink fetches page metadata once for each resource it
\* has routed whose destination is valid and which is not ignored, and for
\* no other; whether a fetch failed changes neither which resources are
\* displayed nor the process, which goes on.
C15_Theorem ==
    /\ \A k \in 1..Len(pipeline) : \A i \in 1..Len(pipeline[k].res) :
         LET p == pipeline[k]
             due == IF i <= p.routed /\ p.res[i].isDestValid
                         /\ ~p.res[i].isIgnored
                    THEN 1 ELSE 0
         IN /\ Cardinality(FetchesAt(p, i)) = due
            /\ Cardinality(LinesAt(p, i)) = due
    /\ (\E j \in 1..Len(out) : out[j].sink = "fetch" /\ ~out[j].ok)
           => mainpc # "fatal"

\* A fetch failed and a later resource was displayed and fetched.
C15_Witness ==
    \E j \in 1..Len(out) : \E l \in (j + 1)..Len(out) :
        /\ out[j].sink = "fetch" /\ ~out[j].ok
        /\ out[l].sink = "fetch"
        /\ <<out[l].m, out[l].i>> # <<out[j].m, out[j].i>>

\* What csvWriter.Flush() has pushed to the file.
CsvFile ==
    LET rows == SelectSeq(out, LAMBDA e : e.sink = "csv")
    IN [j \in 1..csvFlushed |-> rows[j].row]
FindingColumn(header) == CHOOSE c \in 1..Len(header) : header[c] = "Finding"

\* C16: when a csv entry point's search has finished and main has
\* returned, the file holds the header row and after it one row for every
\* classified resource, each with one of the four findings in the column
\* the header calls Finding; that includes a search with no message.
C16_Claim ==
    (IsCsv /\ mode = "search" /\ mainpc = "exited" /\ failure = "none") =>
        /\ Len(CsvFile) = 1 + SumCounts(harvested)
        /\ CsvFile[1] = CsvHeader(entry)
        /\ \A j \in 2..Len(CsvFile) :
             CsvFile[j][FindingColumn(CsvHeader(entry))] \in
                 {"Invalid URL", "Invalid URL Destination", "Ignored",
                  "Resolved"}

====
